---- MODULE Spec2Model ----
(***************************************************************************)
(* A model of scan.js: one run of the scanner launches a browser, scans    *)
(* DuProprio, Centris and Sutton page by page, merges the three mappings,  *)
(* reconciles them against savedListings (loaded from listings.json),      *)
(* notifies and writes listings.json when something is new, and closes the *)
(* browser.  Runs follow each other; each run loads what the previous ones *)
(* left on disk.                                                           *)
(*                                                                         *)
(* A listing is identified by its key "<source>-<native id>", modelled as  *)
(* the pair <<prefix, native id>>; its content is the date of the scan     *)
(* that produced it (dateScanned), which is what distinguishes two scans   *)
(* of the same listing.                                                    *)
(*                                                                         *)
(* Spec is the scanner, with a page given as the set of native ids of the  *)
(* items that yield a record; LiveSpec adds that the process keeps         *)
(* running.  SpecItems is the extraction of the item nodes of one page by  *)
(* each adapter, with the identifier, sold marker, price, image and link   *)
(* of every node.                                                          *)
(***************************************************************************)
EXTENDS Integers, FiniteSets, Sequences, TLC

\* Bounds of the model.
MaxNative == 1      \* native ids a site hands out: 1..MaxNative
MaxPages  == 2      \* a site's result set has at most MaxPages pages
MaxRuns   == 2      \* runs of the script, one per day

NativeIds == 1..MaxNative
Prefixes  == {"duproprio", "centris", "sutton"}

VARIABLES
    run,                \* the number of the current run; also today's date
    disk,               \* listings.json
    savedListings,      \* scan.js:12
    status,             \* scan.js:16
    browser,            \* scan.js:17: "none", "open" or "closed"
    pc,                 \* where the main async function (or an adapter) stands
    page,               \* what the browser's page shows: [items, last]
    pageNumber,         \* the running adapter's pageNumber
    listings,           \* the running adapter's accumulator
    duProprioListings,  \* scan.js:27
    centrisListings,    \* scan.js:28
    suttonListings,     \* scan.js:29
    scannedListings,    \* scan.js:30
    newListings,        \* scan.js:31
    printed,            \* the JSON result line: "none", "failure" or "success"
    printedStatus,      \* the status field of the printed failure object
    exitCode,           \* -1 while the process runs
    \* history of the current run, read by the properties only
    served,             \* pages the running adapter's site has served so far
    servedItems,        \* the union of their items
    extracted,          \* the page numbers the running adapter extracted, in order
    priorItems,         \* the union of the items of the pages that were read to
                        \* their end
    waiting,            \* what the adapter awaits since its last click: "none",
                        \* "navigation", "navigation+delay" or "delay"
    diskBefore,         \* listings.json when the run started
    savedBefore,        \* savedListings when the run started
    notified,           \* was sendEmailNotification called
    wrote,              \* was fs.writeFile called
    listingNodes,       \* the item nodes of one page, in document order
    site,               \* the site that page is of, "none" when there is none
    pageListings,       \* what the adapter of that site made of that page
    exception           \* where an exception escaped to: "none", or the step

vars == <<run, disk, savedListings, status, browser, pc, page, pageNumber,
          listings, duProprioListings, centrisListings, suttonListings,
          scannedListings, newListings, printed, printedStatus, exitCode,
          served, servedItems, extracted, priorItems, waiting,
          diskBefore, savedBefore, notified, wrote, listingNodes, site,
          pageListings, exception>>

----------------------------------------------------------------------------
\* Objects used as mappings

EmptyMap == [k \in {} |-> 0]

\* Object.assign(target, source): source's entries override target's
ObjectAssign(target, source) ==
    [k \in (DOMAIN target) \cup (DOMAIN source) |->
        IF k \in DOMAIN source THEN source[k] ELSE target[k]]

\* The record an adapter builds for the item with that native id
Listing(prefix, nativeId, todaysDate) ==
    [id |-> <<prefix, nativeId>>, dateScanned |-> todaysDate]

\* A variant in which every adapter builds its keys and ids with the prefix of
\* the first one
PageListingsOnePrefix(prefix, items, todaysDate) ==
    [k \in {"duproprio"} \X items |-> Listing("duproprio", k[2], todaysDate)]

\* The mapping an adapter builds from a set of items of one page
PageListings(prefix, items, todaysDate) ==
    [k \in {prefix} \X items |-> Listing(prefix, k[2], todaysDate)]

\* formatDate(): one run per day
formatDate == run

NoPage == [items |-> {}, last |-> TRUE]

\* The pages a site may serve as its next page: any items, and a terminal
\* signal that is forced on the MaxPages-th page
Pages ==
    {[items |-> i, last |-> l] : i \in SUBSET NativeIds, l \in BOOLEAN}

PagesAfter(n) == {p \in Pages : n + 1 >= MaxPages => p.last}

----------------------------------------------------------------------------
\* The reconciliation loop, scan.js:31-41

\* Object.values(scannedListings)
ObjectValues(m) == {m[k] : k \in DOMAIN m}

\* A variant that takes a listing for seen only when its stored copy is equal
IsSavedUnchanged(saved, listing) ==
    listing.id \in DOMAIN saved /\ saved[listing.id] = listing

\* scan.js:35: typeof savedListings[listing.id] != 'undefined'
IsSaved(saved, listing) == listing.id \in DOMAIN saved

\* A variant that replaces the mapping by the single entry
EnterAlone(m, listing) == [k \in {listing.id} |-> listing]

\* scan.js:39-40: the listing is entered in both mappings under its id
Enter(m, listing) == ObjectAssign(m, [k \in {listing.id} |-> listing])

\* A variant that refreshes the stored copy of a listing seen before
RECURSIVE ReconcileRefresh(_, _, _)
ReconcileRefresh(values, saved, new) ==
    IF values = {}
    THEN [saved |-> saved, new |-> new]
    ELSE LET listing == CHOOSE v \in values : TRUE
         IN  IF listing.id \in DOMAIN saved
             THEN ReconcileRefresh(values \ {listing}, Enter(saved, listing), new)
             ELSE ReconcileRefresh(values \ {listing}, Enter(saved, listing),
                                   Enter(new, listing))

\* A variant that reports the new listings without remembering them
RECURSIVE ReconcileForgets(_, _, _)
ReconcileForgets(values, saved, new) ==
    IF values = {}
    THEN [saved |-> saved, new |-> new]
    ELSE LET listing == CHOOSE v \in values : TRUE
         IN  IF listing.id \in DOMAIN saved
             THEN ReconcileForgets(values \ {listing}, saved, new)
             ELSE ReconcileForgets(values \ {listing}, saved,
                                   Enter(new, listing))

RECURSIVE Reconcile(_, _, _)
Reconcile(values, saved, new) ==
    IF values = {}
    THEN [saved |-> saved, new |-> new]
    ELSE LET listing == CHOOSE v \in values : TRUE
         IN  IF IsSaved(saved, listing)
             THEN Reconcile(values \ {listing}, saved, new)
             ELSE Reconcile(values \ {listing}, Enter(saved, listing),
                            Enter(new, listing))

----------------------------------------------------------------------------
\* An adapter that has not been given a page
NotExtracted == [ran |-> FALSE, threw |-> FALSE, listings |-> EmptyMap]

MainInit ==
    /\ run = 1
    /\ disk = EmptyMap
    /\ savedListings = EmptyMap
    /\ status = "Just started"
    /\ browser = "none"
    /\ pc = "launch"
    /\ page = NoPage
    /\ pageNumber = 1
    /\ listings = EmptyMap
    /\ duProprioListings = EmptyMap
    /\ centrisListings = EmptyMap
    /\ suttonListings = EmptyMap
    /\ scannedListings = EmptyMap
    /\ newListings = EmptyMap
    /\ printed = "none"
    /\ printedStatus = ""
    /\ exitCode = -1
    /\ served = 0
    /\ servedItems = {}
    /\ extracted = <<>>
    /\ priorItems = {}
    /\ waiting = "none"
    /\ diskBefore = EmptyMap
    /\ savedBefore = EmptyMap
    /\ notified = FALSE
    /\ wrote = FALSE
    /\ exception = "none"

Init ==
    /\ MainInit
    /\ listingNodes = <<>>
    /\ site = "none"
    /\ pageListings = NotExtracted

itemVars    == <<listingNodes, site, pageListings>>
mainVars    == <<scannedListings, newListings, savedListings, disk, notified,
                 wrote, diskBefore, savedBefore, run, itemVars>>
exitVars    == <<printed, printedStatus, exitCode, exception>>
adapterVars == <<page, pageNumber, listings, served, servedItems, extracted,
                 priorItems, waiting>>
resultVars  == <<duProprioListings, centrisListings, suttonListings>>

\* The site serves its next page: the browser shows it
Serve(p) ==
    /\ page' = p
    /\ served' = served + 1
    /\ servedItems' = servedItems \cup p.items

\* An adapter starts with fresh locals (scan.js:64-67, 135-138, 209-211) and
\* page.goto shows the first page of the site
GotoOk(p) ==
    /\ page' = p
    /\ served' = 1
    /\ servedItems' = p.items
    /\ priorItems' = {}
    /\ waiting' = "none"
    /\ pageNumber' = 1
    /\ listings' = EmptyMap
    /\ extracted' = <<>>

\* An adapter's catch block was reached: its locals are out of scope
Caught ==
    /\ page' = NoPage
    /\ served' = 0
    /\ servedItems' = {}
    /\ priorItems' = {}
    /\ waiting' = "none"
    /\ pageNumber' = 1
    /\ listings' = EmptyMap
    /\ extracted' = <<>>

\* An exception nothing catches rejects the promise of the main async function
\* (scan.js:19-23 are outside the try): nothing is printed, the browser is not
\* closed, and the exit code is what the Node.js build makes of an unhandled
\* rejection (0 with a warning, or 1)
UnhandledRejection(step) ==
    /\ exception' = step
    /\ pc' = "exited"
    /\ exitCode' \in {0, 1}
    /\ UNCHANGED <<printed, printedStatus>>

\* scan.js:20
Launch ==
    /\ pc = "launch"
    /\ \/ /\ browser' = "open"
          /\ pc' = "newPage"
          /\ UNCHANGED exitVars
       \/ /\ UnhandledRejection("launch")
          /\ UNCHANGED browser
    /\ UNCHANGED <<status, mainVars, adapterVars, resultVars>>

\* scan.js:21-23
NewPage ==
    /\ pc = "newPage"
    /\ \/ /\ pc' = "du_open"
          /\ UNCHANGED exitVars
       \/ UnhandledRejection("newPage")
    /\ UNCHANGED <<status, browser, mainVars, adapterVars, resultVars>>

----------------------------------------------------------------------------
\* scanDuproprioListings, scan.js:63-132

\* scan.js:127-131: the catch block logs and the function returns what
\* listings holds; the main function goes on with scan.js:28
DuCatch(partial) ==
    /\ Caught
    /\ duProprioListings' = partial
    /\ pc' = "centris_open"

\* scan.js:64-73
DuOpen ==
    /\ pc = "du_open"
    /\ status' = "Opening DuProprio's website"
    /\ \/ \E p \in PagesAfter(0) :
             /\ GotoOk(p)
             /\ pc' = "du_extract"
             /\ UNCHANGED duProprioListings
       \/ \* page.goto throws
          DuCatch(EmptyMap)
    /\ UNCHANGED <<browser, mainVars, exitVars, centrisListings, suttonListings>>

\* scan.js:77-119: the items of the page are processed one by one, each entered
\* in listings as soon as it is extracted; then the terminal signal is read
\* and, short of the last page, the "next" link is clicked while the navigation
\* is awaited
DuExtract ==
    /\ pc = "du_extract"
    /\ \/ /\ extracted' = Append(extracted, served)
          /\ listings' = ObjectAssign(listings,
                             PageListings("duproprio", page.items, formatDate))
          /\ IF page.last
             THEN /\ status' = "Finished scanning DuProprio"
                  /\ duProprioListings' = listings'
                  /\ pc' = "centris_open"
                  /\ UNCHANGED <<pageNumber, waiting>>
             ELSE /\ pageNumber' = pageNumber + 1
                  /\ status' = "Going to next page on DuPropio"
                  /\ waiting' = "navigation"
                  /\ pc' = "du_advance"
                  /\ UNCHANGED duProprioListings
          /\ priorItems' = servedItems
          /\ UNCHANGED <<page, served, servedItems>>
       \/ \* page.evaluate of item f throws after the items of done were
          \* entered
          \E f \in page.items : \E done \in SUBSET (page.items \ {f}) :
             /\ status' = "Processing DuProprio listing item " \o ToString(f)
             /\ DuCatch(ObjectAssign(listings,
                            PageListings("duproprio", done, formatDate)))
    /\ UNCHANGED <<browser, mainVars, exitVars, centrisListings, suttonListings>>

\* scan.js:117-120: the awaited Promise.all settles when the navigation has
\* settled, or rejects when the click throws or the navigation has not settled
\* within the 60000 ms of scan.js:118
DuAdvance ==
    /\ pc = "du_advance"
    /\ \/ \E p \in PagesAfter(served) :
             /\ Serve(p)
             /\ waiting' = "none"
             /\ pc' = "du_extract"
             /\ UNCHANGED <<duProprioListings, listings, pageNumber, extracted,
                            priorItems>>
       \/ \* the click throws or the navigation times out
          DuCatch(listings)
    /\ UNCHANGED <<status, browser, mainVars, exitVars, centrisListings,
                   suttonListings>>

----------------------------------------------------------------------------
\* scanCentrisListings, scan.js:208-272

\* A variant without the try block: the exception reaches the catch of the
\* main function
CentrisRethrow ==
    /\ Caught
    /\ centrisListings' = EmptyMap
    /\ pc' = "catch"

\* scan.js:267-271: scannedListings is still the {} of scan.js:210; the main
\* function goes on with scan.js:29
CentrisCatch ==
    /\ Caught
    /\ centrisListings' = EmptyMap
    /\ pc' = "sutton_open"

\* scan.js:209-216
CentrisOpen ==
    /\ pc = "centris_open"
    /\ status' = "Opening Centris's website"
    /\ \/ \E p \in PagesAfter(0) :
             /\ GotoOk(p)
             /\ pc' = "centris_loop"
             /\ UNCHANGED centrisListings
       \/ \* page.goto throws
          CentrisCatch
    /\ UNCHANGED <<browser, mainVars, exitVars, duProprioListings,
                   suttonListings>>

\* scan.js:222: the loop runs while the page shows an active "next" control
CentrisHasNext(p) == ~p.last

\* scan.js:234-259: the items the page shows are entered in listings and
\* pageNumber is incremented. pageNumber > 1 is all that is ever tested of
\* this counter (scan.js:223), so it stops at 2; a page read again because the
\* click did not change it is recorded once
CentrisExtract(p, n) ==
    /\ extracted' = IF extracted # <<>> /\ extracted[Len(extracted)] = n
                       THEN extracted
                       ELSE Append(extracted, n)
    /\ listings' = ObjectAssign(listings,
                       PageListings("centris", p.items, formatDate))
    /\ pageNumber' = IF pageNumber > 1 THEN pageNumber ELSE pageNumber + 1
    /\ priorItems' = priorItems \cup p.items

\* scan.js:222-232, 261-266: one test of the while condition of the evaluated
\* function. When it holds, the first iteration extracts the page at once;
\* every later one clicks "next" and starts the timer of scan.js:230
CentrisLoop ==
    /\ pc = "centris_loop"
    /\ IF CentrisHasNext(page)
       THEN \/ /\ IF pageNumber > 1
                   THEN /\ waiting' = "delay"
                        /\ pc' = "centris_wait"
                        /\ UNCHANGED <<extracted, listings, pageNumber,
                                       priorItems>>
                   ELSE /\ CentrisExtract(page, served)
                        /\ UNCHANGED <<pc, waiting>>
               /\ UNCHANGED <<status, centrisListings, page, served,
                              servedItems>>
            \/ \* the evaluated function throws and page.evaluate rejects
               /\ CentrisCatch
               /\ UNCHANGED status
       ELSE /\ status' = "Finished scanning Centris"
            /\ centrisListings' = listings
            /\ pc' = "sutton_open"
            /\ UNCHANGED adapterVars
    /\ UNCHANGED <<browser, mainVars, exitVars, duProprioListings,
                   suttonListings>>

\* scan.js:230-259: the timer fires after 1500 ms and the iteration goes on
\* with what the page shows by then: the next page of the site, or still the
\* same page when the click did not advance it
CentrisDelay ==
    /\ pc = "centris_wait"
    /\ \/ /\ \/ \E p \in PagesAfter(served) :
                   /\ Serve(p)
                   /\ CentrisExtract(p, served')
             \/ /\ CentrisExtract(page, served)
                /\ UNCHANGED <<page, served, servedItems>>
          /\ waiting' = "none"
          /\ pc' = "centris_loop"
          /\ UNCHANGED centrisListings
       \/ \* page.evaluate rejects
          CentrisCatch
    /\ UNCHANGED <<status, browser, mainVars, exitVars, duProprioListings,
                   suttonListings>>

----------------------------------------------------------------------------
\* scanSuttonListings, scan.js:134-206

\* A variant whose catch block returns a fresh mapping
SuttonCatchEmpty(partial) ==
    /\ Caught
    /\ suttonListings' = EmptyMap
    /\ pc' = "reconcile"

\* scan.js:201-205: the catch block logs and the function returns what
\* listings holds; the main function goes on with scan.js:30
SuttonCatch(partial) ==
    /\ Caught
    /\ suttonListings' = partial
    /\ pc' = "reconcile"

\* scan.js:135-144
SuttonOpen ==
    /\ pc = "sutton_open"
    /\ status' = "Opening Sutton's website"
    /\ \/ \E p \in PagesAfter(0) :
             /\ GotoOk(p)
             /\ pc' = "sutton_extract"
             /\ UNCHANGED suttonListings
       \/ \* page.goto throws
          SuttonCatch(EmptyMap)
    /\ UNCHANGED <<browser, mainVars, exitVars, duProprioListings,
                   centrisListings>>

\* scan.js:148-192: the page is extracted by one evaluated function and its
\* listings are merged into the accumulator; then the terminal signal is read
\* and, short of the last page, the "next" link is clicked while the navigation
\* is awaited
SuttonExtract ==
    /\ pc = "sutton_extract"
    /\ \/ /\ extracted' = Append(extracted, served)
          /\ listings' = ObjectAssign(listings,
                             PageListings("sutton", page.items, formatDate))
          /\ IF page.last
             THEN /\ status' = "Finished scanning Sutton"
                  /\ suttonListings' = listings'
                  /\ pc' = "reconcile"
                  /\ UNCHANGED <<pageNumber, waiting>>
             ELSE /\ pageNumber' = pageNumber + 1
                  /\ status' = "Going to next page on Sutton"
                  /\ waiting' = "navigation+delay"
                  /\ pc' = "sutton_advance"
                  /\ UNCHANGED suttonListings
          /\ priorItems' = servedItems
          /\ UNCHANGED <<page, served, servedItems>>
       \/ \* the evaluated function throws: no item of the page reaches the
          \* accumulator
          /\ status' = "Looking for Sutton listing items"
          /\ SuttonCatch(listings)
    /\ UNCHANGED <<browser, mainVars, exitVars, duProprioListings,
                   centrisListings>>

\* A variant that does not await the delay of scan.js:194: the timer is
\* started and the page is read as soon as the navigation has settled
SuttonAdvanceNoDelay ==
    /\ pc = "sutton_advance"
    /\ \/ \E p \in PagesAfter(served) :
             /\ Serve(p)
             /\ waiting' = "delay"
             /\ pc' = "sutton_extract"
             /\ UNCHANGED <<suttonListings, listings, pageNumber, extracted,
                            priorItems>>
       \/ SuttonCatch(listings)
    /\ UNCHANGED <<status, browser, mainVars, exitVars, duProprioListings,
                   centrisListings>>

\* scan.js:190-194, 347-351: the awaited Promise.all settles when the
\* navigation has settled, then the timer of delay(500) fires; or Promise.all
\* rejects when the click throws or the navigation has not settled within the
\* 60000 ms of scan.js:191
SuttonAdvance ==
    /\ pc = "sutton_advance"
    /\ \/ \E p \in PagesAfter(served) :
             /\ Serve(p)
             /\ waiting' = "none"
             /\ pc' = "sutton_extract"
             /\ UNCHANGED <<suttonListings, listings, pageNumber, extracted,
                            priorItems>>
       \/ \* the click throws or the navigation times out
          SuttonCatch(listings)
    /\ UNCHANGED <<status, browser, mainVars, exitVars, duProprioListings,
                   centrisListings>>

----------------------------------------------------------------------------
\* The rest of the main async function, scan.js:30-61

\* scan.js:60, after which the process ends with nothing left to do
CloseBrowser ==
    /\ browser' = "closed"
    /\ exitCode' = 0
    /\ pc' = "exited"
    /\ UNCHANGED <<printed, printedStatus>>

\* A variant that notifies and saves after every scan
AnyNewAlways(new) == TRUE

\* scan.js:46: Object.keys(newListings).length
AnyNew(new) == Cardinality(DOMAIN new) # 0

\* scan.js:30-46, and scan.js:60 when nothing is new: the three mappings are
\* merged into the first one and the merged listings are reconciled against
\* savedListings
ReconcileStep ==
    /\ pc = "reconcile"
    /\ LET merged == ObjectAssign(ObjectAssign(duProprioListings, centrisListings),
                                  suttonListings)
           r == Reconcile(ObjectValues(merged), savedListings, EmptyMap)
       IN  /\ scannedListings' = merged
           /\ duProprioListings' = merged
           /\ newListings' = r.new
           /\ savedListings' = r.saved
           /\ IF AnyNew(r.new)
              THEN /\ pc' = "notify"
                   /\ UNCHANGED <<browser, printed, printedStatus, exitCode>>
              ELSE CloseBrowser
    /\ Caught
    /\ UNCHANGED <<itemVars, run, disk, status, centrisListings, suttonListings,
                   exception, diskBefore, savedBefore, notified, wrote>>

\* A variant that saves the store before it notifies
NotifyAfterWrite ==
    /\ pc = "notify"
    /\ notified' = TRUE
    /\ wrote' = TRUE
    /\ disk' = savedListings
    /\ \/ /\ pc' = "write"
          /\ UNCHANGED <<exitVars, browser>>
       \/ /\ exception' = "notify"
          /\ pc' = "catch"
          /\ UNCHANGED <<printed, printedStatus, exitCode, browser>>
    /\ UNCHANGED <<itemVars, run, savedListings, status, adapterVars, resultVars,
                   scannedListings, newListings, diskBefore, savedBefore>>

\* A variant that swallows what the notification sink throws and goes on to
\* save the store
NotifySwallows ==
    /\ pc = "notify"
    /\ notified' = TRUE
    /\ \/ /\ pc' = "write"
          /\ UNCHANGED <<exitVars, browser>>
       \/ /\ exception' = "notify"
          /\ pc' = "write"
          /\ UNCHANGED <<printed, printedStatus, exitCode, browser>>
    /\ UNCHANGED <<itemVars, run, disk, savedListings, status, adapterVars, resultVars,
                   scannedListings, newListings, diskBefore, savedBefore, wrote>>

\* scan.js:48: the notification sink is awaited; what it throws reaches the
\* catch of scan.js:56
Notify ==
    /\ pc = "notify"
    /\ notified' = TRUE
    /\ \/ /\ pc' = "write"
          /\ UNCHANGED <<exitVars, browser>>
       \/ /\ exception' = "notify"
          /\ pc' = "catch"
          /\ UNCHANGED <<printed, printedStatus, exitCode, browser>>
    /\ UNCHANGED <<itemVars, run, disk, savedListings, status, adapterVars, resultVars,
                   scannedListings, newListings, diskBefore, savedBefore, wrote>>

\* scan.js:51-53 and scan.js:60: fs.writeFile's callback is resolve, so the
\* promise resolves whether the file was written or the write failed
WriteFile ==
    /\ pc = "write"
    /\ wrote' = TRUE
    /\ \/ disk' = savedListings
       \/ UNCHANGED disk
    /\ CloseBrowser
    /\ UNCHANGED <<itemVars, run, savedListings, status, adapterVars, resultVars,
                   scannedListings, newListings, exception, diskBefore,
                   savedBefore, notified>>

\* scan.js:56-57 and endWithError, scan.js:353-357: the failure object is
\* printed with the status, the browser is closed and the process exits
endWithError ==
    /\ pc = "catch"
    /\ printed' = "failure"
    /\ printedStatus' = status
    /\ browser' = "closed"
    /\ exitCode' = 1
    /\ pc' = "exited"
    /\ UNCHANGED <<itemVars, run, disk, savedListings, status, adapterVars, resultVars,
                   scannedListings, newListings, exception, diskBefore,
                   savedBefore, notified, wrote>>

\* The script is started again the next day: scan.js:12-17
NewRun ==
    /\ pc = "exited"
    /\ run < MaxRuns
    /\ run' = run + 1
    /\ savedListings' = disk
    /\ diskBefore' = disk
    /\ savedBefore' = disk
    /\ status' = "Just started"
    /\ browser' = "none"
    /\ pc' = "launch"
    /\ Caught
    /\ duProprioListings' = EmptyMap
    /\ centrisListings' = EmptyMap
    /\ suttonListings' = EmptyMap
    /\ scannedListings' = EmptyMap
    /\ newListings' = EmptyMap
    /\ printed' = "none"
    /\ printedStatus' = ""
    /\ exitCode' = -1
    /\ notified' = FALSE
    /\ wrote' = FALSE
    /\ exception' = "none"
    /\ UNCHANGED <<disk, itemVars>>

Next ==
    \/ Launch
    \/ NewPage
    \/ DuOpen
    \/ DuExtract
    \/ DuAdvance
    \/ CentrisOpen
    \/ CentrisLoop
    \/ CentrisDelay
    \/ SuttonOpen
    \/ SuttonExtract
    \/ SuttonAdvance
    \/ ReconcileStep
    \/ Notify
    \/ WriteFile
    \/ endWithError
    \/ NewRun

Spec == Init /\ [][Next]_vars

\* The process keeps running: a step that can be taken is taken in the end.
\* Which of the outcomes a site gives is left to the site
LiveSpec == Spec /\ WF_vars(Next)

----------------------------------------------------------------------------
\* The extraction of the items of one page, scan.js:80-108, 151-182, 234-257

MaxItems == 2       \* a page shows at most MaxItems items

\* config.centris.minPrice and config.centris.maxPrice, scan.js:263
minPrice == 2
maxPrice == 3

\* What parseInt returns for a text that does not start with a number
NaN == -1

\* JavaScript's < and > are false when an operand is NaN
Lt(a, b) == a # NaN /\ b # NaN /\ a < b
Gt(a, b) == a # NaN /\ b # NaN /\ a > b

\* An attribute value is the sequence of its parts between "-". The parts
\* made of digits only are those of Digits
Digits == {ToString(n) : n \in NativeIds}

\* The identifier attribute of an item node: the id of DuProprio, the
\* data-inscription-id of Sutton, the data-mlsnumber of Centris
IdAttrs(prefix) ==
    {[present |-> FALSE, parts |-> <<>>]}
    \cup {[present |-> TRUE, parts |-> p] :
            p \in {<<d>> : d \in Digits} \cup {<<"listing", d>> : d \in Digits}
                 \cup {<<"promo", "listing", d>> : d \in Digits}
                 \cup {<<"promo">>}}

\* The identifier the site gives an item it lists properly
GoodId(prefix, d) ==
    [present |-> TRUE,
     parts |-> IF prefix = "duproprio" THEN <<"listing", d>> ELSE <<d>>]

\* An item node with everything in place: it is not marked sold, and it has
\* its price element holding the number price, its image with a src and its
\* details link with an href
GoodNode(prefix, d, price) ==
    [idAttr |-> GoodId(prefix, d), sold |-> FALSE,
     price |-> [node |-> TRUE, value |-> price],
     image |-> "src", link |-> "href"]

\* The item nodes a page of the site may show: the nodes with everything in
\* place and those that differ from one of them in one respect
Nodes(prefix) ==
    LET good  == {GoodNode(prefix, d, p) :
                     d \in Digits, p \in (minPrice - 1)..(maxPrice + 1)}
        plain == {GoodNode(prefix, d, minPrice) : d \in Digits}
    IN  good
        \cup {[g EXCEPT !.sold = TRUE] : g \in plain}
        \cup {[g EXCEPT !.idAttr = a] : g \in plain, a \in IdAttrs(prefix)}
        \cup {[g EXCEPT !.price = [node |-> n, value |-> NaN]] :
                 g \in plain, n \in BOOLEAN}
        \cup {[g EXCEPT !.image = i] : g \in plain, i \in {"absent", "nosrc"}}
        \cup {[g EXCEPT !.link = l] : g \in plain, l \in {"absent", "nohref"}}

\* The pages of a site: up to MaxItems item nodes
NodeLists(prefix) ==
    UNION {[1..n -> Nodes(prefix)] : n \in 0..MaxItems}

\* What the extraction of a page has produced so far
NoListings == [ran |-> TRUE, threw |-> FALSE, listings |-> EmptyMap]

\* An exception: a property of null was read
TypeError(acc) == [acc EXCEPT !.threw = TRUE]

\* listings[key] = record, for the record the three adapters build: the
\* native id is the sequence of the parts of the identifier it is taken from
Emit(acc, prefix, native, price, node) ==
    [acc EXCEPT !.listings = ObjectAssign(@,
        [k \in {<<prefix, native>>} |->
            [id |-> <<prefix, native>>, price |-> price,
             imageUrl |-> node.image, url |-> node.link]])]

\* scan.js:80: the selector .search-results-listings-list__item:not(.is-sold)
DuSelected(node) == ~node.sold

\* scan.js:85: /listing-[0-9]+/.test(listingId), anywhere in the text; a null
\* is tested as the text "null"
RegexTest(idAttr) ==
    /\ idAttr.present
    /\ \E i \in 1..(Len(idAttr.parts) - 1) :
          idAttr.parts[i] = "listing" /\ idAttr.parts[i + 1] \in Digits

\* scan.js:82-108: one iteration of the loop over listingNodes
DuItem(acc, node) ==
    IF ~RegexTest(node.idAttr)
    THEN acc
    ELSE IF ~node.price.node \/ node.image = "absent" \/ node.link = "absent"
         THEN TypeError(acc)
         ELSE Emit(acc, "duproprio", <<node.idAttr.parts[2]>>,
                   node.price.value, node)

RECURSIVE DuItems(_, _)
DuItems(nodes, acc) ==
    IF nodes = <<>> \/ acc.threw
    THEN acc
    ELSE DuItems(Tail(nodes), DuItem(acc, Head(nodes)))

\* scan.js:80-108: what the items of a page add to the listings of DuProprio;
\* the items entered before an exception stay in listings
scanDuproprioPage(nodes) == DuItems(SelectSeq(nodes, DuSelected), NoListings)

\* scan.js:154: the selector li[data-inscription-id]
SuttonSelected(node) == node.idAttr.present

\* scan.js:154-177: one iteration of the loop of the evaluated function
SuttonItem(acc, node) ==
    IF node.sold
    THEN acc
    ELSE IF node.image = "absent" \/ node.link = "absent"
         THEN TypeError(acc)
         ELSE Emit(acc, "sutton", node.idAttr.parts,
                   IF node.price.node THEN node.price.value ELSE NaN, node)

RECURSIVE SuttonItems(_, _)
SuttonItems(nodes, acc) ==
    IF nodes = <<>> \/ acc.threw
    THEN acc
    ELSE SuttonItems(Tail(nodes), SuttonItem(acc, Head(nodes)))

\* scan.js:151-182: what the items of a page add to the listings of Sutton;
\* an exception rejects page.evaluate and nothing of the page is merged
scanSuttonPage(nodes) ==
    LET r == SuttonItems(SelectSeq(nodes, SuttonSelected), NoListings)
    IN  IF r.threw THEN TypeError(NoListings) ELSE r

\* scan.js:236, 246: getAttribute('data-mlsnumber') is null when the link
\* has no such attribute, and 'centris-' + null is the text "centris-null"
MlsNumber(node) ==
    IF node.idAttr.present THEN node.idAttr.parts ELSE <<"null">>

\* scan.js:234-257: one iteration of the loop over the items of Centris
CentrisItem(acc, node) ==
    IF node.link = "absent" \/ node.image = "absent" \/ ~node.price.node
    THEN TypeError(acc)
    ELSE IF Lt(node.price.value, minPrice) \/ Gt(node.price.value, maxPrice)
         THEN acc
         ELSE Emit(acc, "centris", MlsNumber(node), node.price.value, node)

RECURSIVE CentrisItems(_, _)
CentrisItems(nodes, acc) ==
    IF nodes = <<>> \/ acc.threw
    THEN acc
    ELSE CentrisItems(Tail(nodes), CentrisItem(acc, Head(nodes)))

\* scan.js:218-263: what the items of a page add to the listings of Centris;
\* an exception rejects page.evaluate and scannedListings stays {}
scanCentrisPage(nodes) ==
    LET r == CentrisItems(nodes, NoListings)
    IN  IF r.threw THEN TypeError(NoListings) ELSE r

\* A page of one of the sites is shown to the adapter of that site
InitItems ==
    /\ MainInit
    /\ site \in Prefixes
    /\ listingNodes \in NodeLists(site)
    /\ pageListings = NotExtracted

scanVars == <<run, disk, savedListings, status, browser, pc, scannedListings,
              newListings, diskBefore, savedBefore, notified, wrote,
              adapterVars, resultVars, exitVars, listingNodes, site>>

ExtractDuProprio ==
    /\ site = "duproprio"
    /\ ~pageListings.ran
    /\ pageListings' = scanDuproprioPage(listingNodes)
    /\ UNCHANGED scanVars

ExtractCentris ==
    /\ site = "centris"
    /\ ~pageListings.ran
    /\ pageListings' = scanCentrisPage(listingNodes)
    /\ UNCHANGED scanVars

ExtractSutton ==
    /\ site = "sutton"
    /\ ~pageListings.ran
    /\ pageListings' = scanSuttonPage(listingNodes)
    /\ UNCHANGED scanVars

NextItems ==
    \/ ExtractDuProprio
    \/ ExtractCentris
    \/ ExtractSutton

SpecItems == InitItems /\ [][NextItems]_vars

----------------------------------------------------------------------------
\* Properties of the reconciliation

Restrict(m, ids) == [k \in ids |-> m[k]]

\* The reconciliation of the current run has been done
Reconciled ==
    \/ pc \in {"notify", "write", "catch"}
    \/ pc = "exited" /\ exception \notin {"launch", "newPage"}

\* The ids the scan returned that were loaded from the store with another content
Rescanned ==
    {k \in (DOMAIN scannedListings) \cap (DOMAIN savedBefore) :
        scannedListings[k] # savedBefore[k]}

\* C1: after the reconciliation of a run, the new set is exactly the merged
\* scan restricted to the ids that are not keys of the mapping loaded at the
\* start of the run, whatever the content of the listings.
C1_NewIsScannedNotSaved ==
    Reconciled =>
        newListings = Restrict(scannedListings,
                               (DOMAIN scannedListings) \ (DOMAIN savedBefore))

\* C1 witness: a reconciled run that found a new listing and rescanned, with
\* another content, a listing it had loaded.
C1_Witness ==
    /\ Reconciled
    /\ Rescanned # {}
    /\ newListings # EmptyMap

\* C2 as claimed: after the reconciliation, the persisted mapping holds the
\* freshly scanned copy of every scanned id, seen before or not.
C2_RefreshOnRescan ==
    Reconciled =>
        \A k \in DOMAIN scannedListings :
            k \in DOMAIN savedListings /\ savedListings[k] = scannedListings[k]

\* C2 as amended: after the reconciliation, the persisted mapping holds the
\* scanned copy of every scanned id that was not loaded, and the loaded copy
\* of every scanned id that was.
C2_FirstSeenCopyKept ==
    Reconciled =>
        \A k \in DOMAIN scannedListings :
            /\ k \in DOMAIN savedListings
            /\ savedListings[k] = IF k \in DOMAIN savedBefore
                                  THEN savedBefore[k]
                                  ELSE scannedListings[k]

\* C2 witness: a reconciled run whose scan returned, with another content, a
\* listing it had loaded, and kept the loaded copy.
C2_Witness ==
    /\ Reconciled
    /\ \E k \in Rescanned : savedListings[k] = savedBefore[k]

\* C3: the reconciliation leaves every loaded entry the scan did not return as
\* it was, in memory and on disk, and every id of the store at the start of
\* the run is still in the store.
C3_UnscannedEntriesKept ==
    /\ Reconciled =>
          \A k \in (DOMAIN savedBefore) \ (DOMAIN scannedListings) :
              k \in DOMAIN savedListings /\ savedListings[k] = savedBefore[k]
    /\ (DOMAIN diskBefore) \subseteq (DOMAIN disk)
    /\ \A k \in (DOMAIN diskBefore) \ (DOMAIN scannedListings) :
          disk[k] = diskBefore[k]

\* C3 witness: a run that wrote a larger store while the scan missed a listing
\* it had loaded.
C3_Witness ==
    /\ Reconciled
    /\ wrote
    /\ disk # diskBefore
    /\ (DOMAIN savedBefore) \ (DOMAIN scannedListings) # {}

\* C4: reconciling the same merged scan against the persisted mapping the
\* reconciliation has just produced yields an empty new set.
C4_SecondReconcileEmpty ==
    Reconciled =>
        Reconcile(ObjectValues(scannedListings), savedListings, EmptyMap).new
            = EmptyMap

\* C4 witness: a reconciliation that found new listings among rescanned ones.
C4_Witness ==
    /\ Reconciled
    /\ newListings # EmptyMap
    /\ (DOMAIN scannedListings) \cap (DOMAIN savedBefore) # {}

\* C5: the notification and the write happen only in a run whose new set is
\* not empty; a run with an empty new set neither notifies nor writes, and
\* leaves the store on disk as it was.
C5_NotifyAndWriteOnlyWhenNew ==
    /\ (notified \/ wrote) => Reconciled /\ newListings # EmptyMap
    /\ (Reconciled /\ newListings = EmptyMap) =>
          ~notified /\ ~wrote /\ disk = diskBefore

\* C5 witness: a finished run whose scan returned listings, none of them new.
C5_Witness ==
    /\ pc = "exited"
    /\ Reconciled
    /\ scannedListings # EmptyMap
    /\ newListings = EmptyMap
    /\ ~notified /\ ~wrote

----------------------------------------------------------------------------
\* Properties of the adapters and of the way a run ends

DuPcs      == {"du_open", "du_extract", "du_advance"}
CentrisPcs == {"centris_open", "centris_loop", "centris_wait"}
SuttonPcs  == {"sutton_open", "sutton_extract", "sutton_advance"}

\* The adapter has just returned from its "Finished scanning" line
DuFinished      == pc = "centris_open" /\ status = "Finished scanning DuProprio"
CentrisFinished == pc = "sutton_open" /\ status = "Finished scanning Centris"
SuttonFinished  == pc = "reconcile" /\ status = "Finished scanning Sutton"

\* The adapter extracted the pages 1..served, each once and in order, and
\* returned the listings of all the items they showed
VisitedAll(prefix, returned) ==
    /\ extracted = [i \in 1..served |-> i]
    /\ returned = PageListings(prefix, servedItems, formatDate)

\* C6: an adapter whose scan met no failure, on a site that showed its
\* terminal signal on page N only, extracted the pages 1..N, each once and in
\* order, and returned the union of their listings; N = 1 included.
C6_EveryPageExtracted ==
    /\ DuFinished => VisitedAll("duproprio", duProprioListings)
    /\ CentrisFinished => VisitedAll("centris", centrisListings)
    /\ SuttonFinished => VisitedAll("sutton", suttonListings)

\* C7: no step of an adapter, failing or not, leaves the scan: DuProprio is
\* followed by Centris, Centris by Sutton and Sutton by the reconciliation,
\* with no exception escaped, nothing printed and the process running; and
\* the reconciliation merges every listing the three adapters returned.
C7_FailureStaysInAdapter ==
    [][ /\ pc \in DuPcs => pc' \in DuPcs \cup {"centris_open"}
        /\ pc \in CentrisPcs => pc' \in CentrisPcs \cup {"sutton_open"}
        /\ pc \in SuttonPcs => pc' \in SuttonPcs \cup {"reconcile"}
        /\ pc \in DuPcs \cup CentrisPcs \cup SuttonPcs =>
              exception' = "none" /\ printed' = "none" /\ exitCode' = -1
        /\ pc = "reconcile" =>
              /\ pc' \in {"notify", "exited"}
              /\ \A k \in DOMAIN centrisListings :
                    k \in DOMAIN scannedListings'
                    /\ scannedListings'[k] = centrisListings[k]
              /\ \A k \in DOMAIN suttonListings :
                    k \in DOMAIN scannedListings'
                    /\ scannedListings'[k] = suttonListings[k]
              /\ \A k \in DOMAIN duProprioListings :
                    k \in DOMAIN scannedListings'
                    /\ scannedListings'[k] = duProprioListings[k]
      ]_vars

\* C7 witness: the Centris scan failed and the Sutton scan failed on a page,
\* and the run reconciled the listings DuProprio returned.
C7_Witness ==
    /\ pc = "notify"
    /\ status = "Looking for Sutton listing items"
    /\ centrisListings = EmptyMap
    /\ \E k \in DOMAIN newListings : k[1] = "duproprio"

\* C8: a run in which an exception was not caught by an adapter ends with the
\* failure object printed with the current status, the browser closed and
\* exit code 1.
C8_FatalExitContract ==
    (pc = "exited" /\ exception # "none") =>
        /\ printed = "failure"
        /\ printedStatus = status
        /\ browser = "closed"
        /\ exitCode = 1

\* C9: a run that ends without a fatal failure has printed the success object
\* and exits with code 0.
C9_SuccessExitContract ==
    (pc = "exited" /\ exception = "none") =>
        printed = "success" /\ exitCode = 0

\* C10: in a run that takes the fatal-failure path the store was not written:
\* listings.json is what it was when the run started.
C10_NoWriteOnFatalPath ==
    (exception # "none" \/ pc = "catch" \/ printed = "failure") =>
        ~wrote /\ disk = diskBefore

\* C10 witness: a run ended by endWithError after the reconciliation had
\* entered new listings in savedListings.
C10_Witness ==
    /\ pc = "exited"
    /\ printed = "failure"
    /\ exitCode = 1
    /\ savedListings # savedBefore
    /\ disk = diskBefore

----------------------------------------------------------------------------
\* Properties of the adapters' results

\* Every key of m carries the prefix, and is the id of its record
Namespaced(prefix, m) ==
    \A k \in DOMAIN m : k[1] = prefix /\ m[k].id = k

\* The part of the mapping m that carries the prefix
OfSource(prefix, m) == Restrict(m, {k \in DOMAIN m : k[1] = prefix})

\* C12: every key and every record id an adapter produces carries the prefix
\* of that adapter, in its accumulator and in the mapping it returns; and the
\* merge of scan.js:30 keeps every record of every adapter as it was returned:
\* the part of the merged mapping under a prefix is the mapping that adapter
\* returned.
C12_IdNamespacing ==
    /\ [](/\ pc \in DuPcs \ {"du_open"} => Namespaced("duproprio", listings)
          /\ pc \in CentrisPcs \ {"centris_open"} =>
                Namespaced("centris", listings)
          /\ pc \in SuttonPcs \ {"sutton_open"} =>
                Namespaced("sutton", listings)
          /\ pc \in CentrisPcs \cup SuttonPcs \cup {"reconcile"} =>
                Namespaced("duproprio", duProprioListings)
          /\ Namespaced("centris", centrisListings)
          /\ Namespaced("sutton", suttonListings))
    /\ [][pc = "reconcile" =>
             /\ OfSource("duproprio", scannedListings') = duProprioListings
             /\ OfSource("centris", scannedListings') = centrisListings
             /\ OfSource("sutton", scannedListings') = suttonListings
             /\ DOMAIN scannedListings' = DOMAIN duProprioListings
                    \cup DOMAIN centrisListings \cup DOMAIN suttonListings
        ]_vars

\* C12 witness: a merged mapping that holds a record of each of the three
\* sources, all with the same native id.
C12_Witness ==
    /\ Reconciled
    /\ \E n \in NativeIds :
          \A prefix \in Prefixes :
              /\ <<prefix, n>> \in DOMAIN scannedListings
              /\ scannedListings[<<prefix, n>>].id = <<prefix, n>>

----------------------------------------------------------------------------
\* Properties of the notification and of the store write

\* The write of scan.js:51-53 was attempted and listings.json does not hold
\* what was to be written
WriteFailed == wrote /\ disk # savedListings

\* C15: a run whose store write failed ends by the fatal path: the failure
\* object is printed and the exit code is 1.
C15_WriteFailureIsFatal ==
    (pc = "exited" /\ WriteFailed) =>
        printed = "failure" /\ exitCode = 1

\* C19: the store write is attempted only after the notification returned
\* without an exception; when the notification throws, the write is not
\* attempted and listings.json is what the run loaded, so that reconciling the
\* same scan against it, as the next run does, reports the same new listings.
C19_NotifyBeforeWrite ==
    /\ (pc = "write" \/ wrote) => notified /\ exception = "none"
    /\ exception = "notify" =>
          /\ ~wrote
          /\ pc \in {"catch", "exited"}
          /\ disk = diskBefore
          /\ Reconcile(ObjectValues(scannedListings), disk, EmptyMap).new
                = newListings

\* C19 witness: a run ended by an exception of the notification, with new
\* listings that are not in listings.json.
C19_Witness ==
    /\ pc = "exited"
    /\ exception = "notify"
    /\ notified
    /\ newListings # EmptyMap
    /\ \A k \in DOMAIN newListings : k \notin DOMAIN disk

----------------------------------------------------------------------------
\* Properties of the waits and of the failures of an adapter

\* C17: the states from which an adapter reads a page are states in which no
\* wait is pending; from the click on "next" to the end of the wait that
\* follows it (the navigation for DuProprio, the navigation and then the delay
\* for Sutton, the delay for Centris) the adapter is at the await, and what it
\* has read by then are the pages served before the click, nothing of the
\* page being loaded.
C17_ReadAfterWait ==
    /\ pc \in {"du_extract", "sutton_extract", "centris_loop"} =>
          waiting = "none"
    /\ pc = "du_advance" <=> waiting = "navigation"
    /\ pc = "sutton_advance" <=> waiting = "navigation+delay"
    /\ pc = "centris_wait" <=> waiting = "delay"
    /\ waiting # "none" =>
          /\ extracted = [i \in 1..served |-> i]
          /\ priorItems = servedItems
          /\ DOMAIN listings \subseteq Prefixes \X servedItems

\* C17 witness: Sutton read a second page, one that showed an item, after the
\* wait that followed its click.
C17_Witness ==
    /\ SuttonFinished
    /\ waiting = "none"
    /\ Len(extracted) > 1
    /\ page.items # {}

\* The step is the return of an adapter through its catch block
DuFails      == pc \in DuPcs /\ pc' = "centris_open"
                /\ status' # "Finished scanning DuProprio"
CentrisFails == pc \in CentrisPcs /\ pc' = "sutton_open"
                /\ status' # "Finished scanning Centris"
SuttonFails  == pc \in SuttonPcs /\ pc' = "reconcile"
                /\ status' # "Finished scanning Sutton"

----------------------------------------------------------------------------
\* Termination of the adapters

\* C16: every adapter that has started returns in the end, whatever the site
\* does, a "next" control that stays active and never advances included: the
\* main function leaves the scan of DuProprio, of Centris and of Sutton.
C16_EveryScanReturns ==
    /\ (pc \in DuPcs) ~> (pc \notin DuPcs)
    /\ (pc \in CentrisPcs) ~> (pc \notin CentrisPcs)
    /\ (pc \in SuttonPcs) ~> (pc \notin SuttonPcs)

\* The part of C16 about DuProprio and Sutton, whose every wait for a
\* navigation ends after 60000 ms at most
DuAndSuttonReturn ==
    /\ (pc \in DuPcs) ~> (pc \notin DuPcs)
    /\ (pc \in SuttonPcs) ~> (pc \notin SuttonPcs)

----------------------------------------------------------------------------
\* Properties of the extraction of the items of a page

\* What the adapter of the site makes of the item nodes of a page
scanPage(prefix, nodes) ==
    CASE prefix = "duproprio" -> scanDuproprioPage(nodes)
      [] prefix = "centris" -> scanCentrisPage(nodes)
      [] prefix = "sutton" -> scanSuttonPage(nodes)

\* The identifier has the shape the site gives the items it lists properly
WellFormedId(prefix, idAttr) == \E d \in Digits : idAttr = GoodId(prefix, d)

\* The native id of a node whose identifier is well formed
NativeOf(node) == <<node.idAttr.parts[Len(node.idAttr.parts)]>>

\* The price is a number within the bounds of Centris
WithinBounds(price) == price # NaN /\ minPrice <= price /\ price <= maxPrice

\* The four mandatory fields of the node can be obtained
Obtainable(node) ==
    /\ WellFormedId(site, node.idAttr)
    /\ node.price.node /\ node.price.value # NaN
    /\ node.image = "src"
    /\ node.link = "href"

\* The record has its four mandatory fields
Complete(listing) ==
    /\ listing.id[1] = site
    /\ listing.id[2] \in {<<d>> : d \in Digits}
    /\ listing.price # NaN
    /\ listing.imageUrl = "src"
    /\ listing.url = "href"

\* C11: every record an adapter makes of a page has a well-formed id, a price
\* that is a number, an image URL and a URL; and an item that lacks one of
\* them is skipped alone: the page yields a record for every item that is not
\* sold, has the four of them and, for Centris, a price within bounds.
C11_MandatoryFields ==
    pageListings.ran =>
        /\ \A k \in DOMAIN pageListings.listings :
              Complete(pageListings.listings[k])
        /\ \A i \in DOMAIN listingNodes :
              LET node == listingNodes[i]
              IN  (/\ Obtainable(node)
                   /\ ~node.sold
                   /\ site = "centris" => WithinBounds(node.price.value))
                  => <<site, NativeOf(node)>> \in DOMAIN pageListings.listings

NotSold(node) == ~node.sold

\* C13: for each of the three sites, the items marked sold contribute
\* nothing: what the adapter makes of a page is what it makes of the page
\* without its sold items.
C13_SoldExcluded ==
    pageListings.ran =>
        pageListings = scanPage(site, SelectSeq(listingNodes, NotSold))

WellFormed(node) == WellFormedId(site, node.idAttr)

\* C14: for each of the three sites, the items whose identifier is absent or
\* not of the expected shape contribute nothing: what the adapter makes of a
\* page is what it makes of the page without these items.
C14_MalformedIdSkipped ==
    pageListings.ran =>
        pageListings = scanPage(site, SelectSeq(listingNodes, WellFormed))

\* C18: every record Centris makes of a page has a price that is a number
\* within [minPrice, maxPrice], and every item with such a price that the
\* loop reached has its record.
C18_CentrisPriceFilter ==
    (pageListings.ran /\ site = "centris") =>
        /\ \A k \in DOMAIN pageListings.listings :
              WithinBounds(pageListings.listings[k].price)
        /\ ~pageListings.threw =>
              \A i \in DOMAIN listingNodes :
                  LET node == listingNodes[i]
                  IN  WithinBounds(node.price.value) =>
                        <<"centris", MlsNumber(node)>>
                            \in DOMAIN pageListings.listings

====
